---------------------------- MODULE Spec2Model ----------------------------
(***************************************************************************)
(* The NocoDB MCP server (class NocoDBServer): the two dispatch entry      *)
(* points (the CallToolRequestSchema handler and executeCommand), the nine *)
(* operation handlers and the HTTP calls they issue through axiosInstance. *)
(*                                                                         *)
(* JavaScript values are modelled as follows.  A string is a TLA+ string,  *)
(* a number an integer.  An object is a function whose DOMAIN is the set   *)
(* of properties that are present: reading a property that is not in the   *)
(* DOMAIN gives JavaScript's undefined.  A JSON object whose member order  *)
(* matters (filters, record data, a response echoed as text) is a sequence *)
(* of <<key, value>> pairs in insertion order.  An array is a sequence.    *)
(*                                                                         *)
(* Every handler is an async function: it runs up to its next await in one *)
(* step, and the step that follows consumes the outcome of the awaited     *)
(* HTTP call.  The remote service is the environment: it answers every     *)
(* call either with a failure carrying a message or with a 2xx response    *)
(* whose body is a JSON object.                                            *)
(***************************************************************************)
EXTENDS Integers, Sequences, FiniteSets, TLC

VARIABLES
    pc,        \* pc[r]: where request r stands
    entry,     \* entry[r]: "tool" (CallToolRequestSchema) or "command" (executeCommand)
    toolName,  \* toolName[r]: request.params.name / comando.action
    args,      \* args[r]: request.params.arguments || {} / comando.params
    handler,   \* handler[r]: the handler method the switch entered, "none" before
    calls,     \* calls[r]: the HTTP calls request r issued on axiosInstance, in order
    responses, \* responses[r]: the outcomes of the calls of calls[r] that completed
    frame,     \* frame[r]: the locals the running handler keeps across its awaits
    outcome,   \* outcome[r]: what the handler returned or threw to the entry point
    result     \* result[r]: what the entry point returned or threw to its caller

vars == <<pc, entry, toolName, args, handler, calls, responses, frame, outcome, result>>

---------------------------------------------------------------------------
(* Bounds of the model. *)

MaxReqs == 2    \* request slots
MaxCols == 2    \* longest columns array of a create_table call
MaxRows == 2    \* longest record list of a response
MaxProjects == 2 \* longest project list of a response

Reqs == 1..MaxReqs

---------------------------------------------------------------------------
(* Configuration, read once from the environment. *)

API_VERSION == "v2"
NOCODB_BASE_ID == "base1"

---------------------------------------------------------------------------
(* JavaScript helpers. *)

Has(o, f) == f \in DOMAIN o

\* `${o.f}` in a template literal: undefined prints as "undefined".
Interp(o, f) == IF Has(o, f) THEN o[f] ELSE "undefined"

\* `${n}` for a number that may be undefined (the empty set) or defined ({n}).
InterpNum(n) == IF n = {} THEN "undefined" ELSE ToString(CHOOSE x \in n : TRUE)

\* const { f = d } = o : the default applies only when the property is undefined.
Default(o, f, d) == IF Has(o, f) THEN o[f] ELSE d

\* An object literal { k: o.f }: a property whose value is undefined is not
\* sent (JSON serialization drops it).
Prop(k, o, f) == IF Has(o, f) THEN (k :> o[f]) ELSE <<>>

\* s contains t as a substring.
Contains(s, t) ==
    \E i \in 1..(Len(s) - Len(t) + 1) : SubSeq(s, i, i + Len(t) - 1) = t

\* The first position at which t occurs in s (0 when it does not occur).
IndexOf(s, t) ==
    IF Contains(s, t)
    THEN CHOOSE i \in 1..(Len(s) - Len(t) + 1) :
            /\ SubSeq(s, i, i + Len(t) - 1) = t
            /\ \A j \in 1..(i - 1) : SubSeq(s, j, j + Len(t) - 1) # t
    ELSE 0

Quote(s) == "\"" \o s \o "\""

\* JSON.stringify(o) of an object with string members: no white space.
RECURSIVE JSONmembers(_, _)
JSONmembers(o, i) ==
    IF i > Len(o) THEN ""
    ELSE (IF i > 1 THEN "," ELSE "")
         \o Quote(o[i][1]) \o ":" \o Quote(o[i][2])
         \o JSONmembers(o, i + 1)

JSONstringify(o) == "{" \o JSONmembers(o, 1) \o "}"

\* JSON.stringify(o, null, 2): one member per line, indented by two spaces,
\* a space after the colon; the empty object stays "{}".
RECURSIVE JSONprettyMembers(_, _)
JSONprettyMembers(o, i) ==
    IF i > Len(o) THEN ""
    ELSE (IF i > 1 THEN "," ELSE "")
         \o "\n  " \o Quote(o[i][1]) \o ": " \o Quote(o[i][2])
         \o JSONprettyMembers(o, i + 1)

JSONpretty(o) ==
    IF Len(o) = 0 THEN "{}" ELSE "{" \o JSONprettyMembers(o, 1) \o "\n}"

---------------------------------------------------------------------------
(* The operation set. *)

\* The tools ListToolsRequestSchema declares.
ToolNames ==
    { "list_projects", "create_project", "list_tables", "create_table",
      "query_table", "insert_record", "update_record", "delete_record",
      "query_table_by_name" }

\* Names outside the operation set that a caller may send.
UnknownNames == { "drop_table", "listProjects" }

Names == ToolNames \cup UnknownNames

\* inputSchema.properties of each tool.
Properties(n) ==
    CASE n = "list_projects"       -> {}
      [] n = "create_project"      -> {"title", "description"}
      [] n = "list_tables"         -> {"projectId"}
      [] n = "create_table"        -> {"projectId", "tableName", "columns"}
      [] n = "query_table"         -> {"projectId", "tableName", "filters", "limit", "offset"}
      [] n = "insert_record"       -> {"projectId", "tableName", "data"}
      [] n = "update_record"       -> {"projectId", "tableName", "recordId", "data"}
      [] n = "delete_record"       -> {"projectId", "tableName", "recordId"}
      [] n = "query_table_by_name" -> {"tableName", "limit"}
      [] OTHER                     -> {}

\* inputSchema.required of each tool.
Required(n) ==
    CASE n = "create_project"      -> {"title"}
      [] n = "list_tables"         -> {"projectId"}
      [] n = "create_table"        -> {"projectId", "tableName", "columns"}
      [] n = "query_table"         -> {"projectId", "tableName"}
      [] n = "insert_record"       -> {"projectId", "tableName", "data"}
      [] n = "update_record"       -> {"projectId", "tableName", "recordId", "data"}
      [] n = "delete_record"       -> {"projectId", "tableName", "recordId"}
      [] n = "query_table_by_name" -> {"tableName"}
      [] OTHER                     -> {}

---------------------------------------------------------------------------
(* The inputs: argument values of the declared types. *)

\* Every slot takes a request (no slot is left unused).
Concurrent == \A r \in Reqs : pc[r] # "Off"

\* The inputs are drawn from all of `wide' while one request runs alone, and
\* from its subset `few' while the requests of all slots interleave.
Among(wide, few) == IF Concurrent THEN few ELSE wide

\* JSON objects with string members (filters, record data, response bodies).
Objects ==
    Among({ <<>>, << <<"a", "x">> >>, << <<"a", "x">>, <<"b", "y">> >> },
          { << <<"a", "x">> >> })

\* One entry of columns: column_name and column_type, is_primary optional.
Columns ==
    { [column_name |-> c, column_type |-> "Number"] : c \in {"c1", "c2"} }
    \cup { [column_name |-> c, column_type |-> "Number", is_primary |-> p] :
              c \in {"c1", "c2"}, p \in BOOLEAN }

ColumnLists ==
    Among(UNION { [1..k -> Columns] : k \in 0..MaxCols },
          { << [column_name |-> "c1", column_type |-> "Number"] >> })

Values(f) ==
    CASE f = "title"       -> {"T"}
      [] f = "description" -> {"D"}
      [] f = "projectId"   -> {"p1"}
      [] f = "tableName"   -> {"t1"}
      [] f = "recordId"    -> {"r1"}
      [] f = "columns"     -> ColumnLists
      [] f = "filters"     -> Objects
      [] f = "data"        -> Among(Objects, { << <<"a", "x">> >>, << <<"b", "y">> >> })
      [] f = "limit"       -> Among({0, 5}, {5})
      [] f = "offset"      -> {3}

\* Every argument bag over the properties F: each property absent or present.
RECURSIVE Bags(_)
Bags(F) ==
    IF F = {} THEN { <<>> }
    ELSE LET f == CHOOSE x \in F : TRUE
             rest == Bags(F \ {f})
         IN  rest \cup { b @@ (f :> v) : b \in rest, v \in Values(f) }

\* The argument bags of a call of n: when the requests interleave, those
\* with every property present.
ArgsOf(n) ==
    Among(Bags(Properties(n)),
          { b \in Bags(Properties(n)) : DOMAIN b = Properties(n) })

\* The messages of a failed HTTP call (error.message of the axios error).
Messages ==
    Among({ "Network Error", "Request failed with status code 404" },
          { "Network Error" })

\* The ids the remote service gives a created table.
TableIds == Among({ "tbl1", "tbl2" }, { "tbl1" })

\* Bodies of the records endpoints of query_table_by_name: list and pageInfo
\* are each present or not, and pageInfo carries totalRows or not.
RecordLists == UNION { [1..k -> {"row"}] : k \in 0..MaxRows }

PageInfos == { <<>> } \cup { [totalRows |-> t] : t \in 0..(MaxRows + 1) }

RecordsBodies ==
    Among({ <<>> }
          \cup { [list |-> l] : l \in RecordLists }
          \cup { [pageInfo |-> p] : p \in PageInfos }
          \cup { [list |-> l, pageInfo |-> p] : l \in RecordLists, p \in PageInfos },
          { [list |-> << "row" >>, pageInfo |-> [totalRows |-> 1]] })

\* Bodies of the project list and of the table list of a project.
ProjectItems == { [id |-> "p1", title |-> "P1"], [id |-> "p2", title |-> "P2"] }

ProjectLists == UNION { [1..k -> ProjectItems] : k \in 0..MaxProjects }

ProjectsBodies ==
    Among({ <<>> } \cup { [list |-> l] : l \in ProjectLists },
          { [list |-> << [id |-> "p1", title |-> "P1"] >>] })

TableItems == { [id |-> "tbl1", title |-> "T1"], [id |-> "tbl2", title |-> "T2"] }

TablesBodies ==
    Among({ <<>>, [list |-> <<>>] }
          \cup { [list |-> <<t>>] : t \in TableItems }
          \cup UNION { { [list |-> <<t, u>>] : u \in TableItems \ {t} } : t \in TableItems },
          { [list |-> << [id |-> "tbl1", title |-> "T1"] >>] })

\* What an awaited HTTP call gives: a rejection with a message, or a
\* response with a body out of D.
Failures == { [ok |-> FALSE, message |-> m] : m \in Messages }

Outcomes(D) == Failures \cup { [ok |-> TRUE, data |-> d] : d \in D }

---------------------------------------------------------------------------
(* The HTTP calls each handler builds. *)

DefaultLimit == 100
DefaultOffset == 0

listProjectsRequest ==
    [method |-> "GET", path |-> "/api/v1/db/meta/projects"]

createProjectRequest(a) ==
    [method |-> "POST", path |-> "/api/v1/db/meta/projects",
     body |-> Prop("title", a, "title")
              @@ [description |-> Default(a, "description", "")]]

listTablesRequest(a) ==
    [method |-> "GET",
     path |-> "/api/v1/db/meta/projects/" \o Interp(a, "projectId") \o "/tables"]

createTableRequest(a) ==
    [method |-> "POST",
     path |-> "/api/v1/db/meta/projects/" \o Interp(a, "projectId") \o "/tables",
     body |-> Prop("table_name", a, "tableName")]

\* IsPrimary testing that is_primary is given instead of that it is true.
IsPrimaryPresent(column) == Has(column, "is_primary")

\* ...(column.is_primary ? { pk: true } : {})
IsPrimary(column) == Has(column, "is_primary") /\ column.is_primary

addColumnRequest(tableId, column) ==
    [method |-> "POST",
     path |-> "/api/v1/db/meta/tables/" \o tableId \o "/columns",
     body |-> [column_name |-> column.column_name,
               title |-> column.column_name,
               uidt |-> column.column_type]
              @@ (IF IsPrimary(column) THEN [pk |-> TRUE] ELSE <<>>)]

\* queryParams adding where without looking at the keys of filters.
queryParamsAlwaysWhere(a) ==
    [limit |-> Default(a, "limit", DefaultLimit),
     offset |-> Default(a, "offset", DefaultOffset),
     where |-> JSONstringify(Default(a, "filters", <<>>))]

\* queryParams: limit and offset always, where only for a filter object
\* that has keys.
queryParams(a) ==
    LET filters == Default(a, "filters", <<>>)
    IN  [limit |-> Default(a, "limit", DefaultLimit),
         offset |-> Default(a, "offset", DefaultOffset)]
        @@ (IF Len(filters) > 0 THEN [where |-> JSONstringify(filters)] ELSE <<>>)

queryTableRequest(a) ==
    [method |-> "GET",
     path |-> "/api/v1/db/data/noco/" \o Interp(a, "projectId")
              \o "/" \o Interp(a, "tableName"),
     params |-> queryParams(a)]

insertRecordRequest(a) ==
    [method |-> "POST",
     path |-> "/api/v1/db/data/noco/" \o Interp(a, "projectId")
              \o "/" \o Interp(a, "tableName")]
    @@ Prop("body", a, "data")

recordPath(a) ==
    "/api/v1/db/data/noco/" \o Interp(a, "projectId")
    \o "/" \o Interp(a, "tableName") \o "/" \o Interp(a, "recordId")

updateRecordRequest(a) ==
    [method |-> "PATCH", path |-> recordPath(a)] @@ Prop("body", a, "data")

deleteRecordRequest(a) ==
    [method |-> "DELETE", path |-> recordPath(a)]

\* The primary records endpoint: limit and the configured base id as params.
primaryRequest(a) ==
    [method |-> "GET",
     path |-> "/api/" \o API_VERSION \o "/tables/" \o Interp(a, "tableName")
              \o "/records",
     params |-> [limit |-> Default(a, "limit", DefaultLimit),
                 baseId |-> NOCODB_BASE_ID]]

\* alternativeRequest trying the primary endpoint a second time.
alternativeRequestSame(a) == primaryRequest(a)

\* The alternative endpoint: the base id in the path, limit alone as param.
alternativeRequest(a) ==
    [method |-> "GET",
     path |-> "/api/" \o API_VERSION \o "/bases/" \o NOCODB_BASE_ID
              \o "/tables/" \o Interp(a, "tableName") \o "/records",
     params |-> [limit |-> Default(a, "limit", DefaultLimit)]]

---------------------------------------------------------------------------
(* What a handler gives its caller, and what the entry points make of it. *)

NoResult == [kind |-> "none"]

\* return { content: [{ type: "text", text }] }
Return(text) == [kind |-> "return", isError |-> FALSE, text |-> text]

\* throw new cls(message)
Throw(cls, message) == [kind |-> "throw", cls |-> cls, message |-> message]

\* CallToolCatch re-throwing every error.
CallToolCatchRethrow(o) == o

\* The catch block of the CallToolRequestSchema handler: an McpError is
\* re-thrown, any other error becomes an isError result.
CallToolCatch(o) ==
    IF o.kind = "throw" /\ o.cls # "McpError"
    THEN [kind |-> "return", isError |-> TRUE, text |-> "Error: " \o o.message]
    ELSE o

\* The catch block of executeCommand: log and re-throw.
executeCommandCatch(o) == o

Deliver(e, o) == IF e = "tool" THEN CallToolCatch(o) ELSE executeCommandCatch(o)

\* The default branch of each switch.
UnknownTool(n) == Throw("McpError", "Unknown tool: " \o n)

UnknownCommand(n) == Throw("Error", "Comando desconhecido: " \o n)

\* The method each case label calls.
HandlerOf(n) ==
    CASE n = "list_projects"       -> "listProjects"
      [] n = "create_project"      -> "createProject"
      [] n = "list_tables"         -> "listTables"
      [] n = "create_table"        -> "createTable"
      [] n = "query_table"         -> "queryTable"
      [] n = "insert_record"       -> "insertRecord"
      [] n = "update_record"       -> "updateRecord"
      [] n = "delete_record"       -> "deleteRecord"
      [] n = "query_table_by_name" -> "queryTableByName"

\* The case labels of the switch in the CallToolRequestSchema handler.
ToolCases ==
    { "list_projects", "create_project", "list_tables", "create_table",
      "query_table", "insert_record", "update_record", "delete_record",
      "query_table_by_name" }

\* The case labels of the switch in executeCommand.
CommandCases ==
    { "list_projects", "list_tables", "query_table", "insert_record",
      "update_record", "delete_record", "query_table_by_name" }

\* ToolSwitch without its default branch: an unknown name falls into the
\* first case.
ToolSwitchNoDefault(n) == IF n \in ToolCases THEN HandlerOf(n) ELSE "listProjects"

ToolSwitch(n) == IF n \in ToolCases THEN HandlerOf(n) ELSE "default"

\* CommandSwitch with the bodies of two cases exchanged.
CommandSwitchSwapped(n) ==
    IF n = "update_record" THEN "deleteRecord"
    ELSE IF n = "delete_record" THEN "updateRecord"
    ELSE IF n \in CommandCases THEN HandlerOf(n) ELSE "default"

CommandSwitch(n) == IF n \in CommandCases THEN HandlerOf(n) ELSE "default"

\* The call a handler issues before its first await, and where it then waits.
FirstRequest(h, a) ==
    CASE h = "listProjects"     -> listProjectsRequest
      [] h = "createProject"    -> createProjectRequest(a)
      [] h = "listTables"       -> listTablesRequest(a)
      [] h = "createTable"      -> createTableRequest(a)
      [] h = "queryTable"       -> queryTableRequest(a)
      [] h = "insertRecord"     -> insertRecordRequest(a)
      [] h = "updateRecord"     -> updateRecordRequest(a)
      [] h = "deleteRecord"     -> deleteRecordRequest(a)
      [] h = "queryTableByName" -> primaryRequest(a)

FirstPc(h) ==
    CASE h = "createTable"      -> "CreateInFlight"
      [] h = "queryTableByName" -> "PrimaryInFlight"
      [] OTHER                  -> "InFlight"

---------------------------------------------------------------------------
(* The result texts. *)

listProjectsText(data) == JSONpretty(data)

createProjectText(data) == "Project created successfully: " \o JSONpretty(data)

listTablesText(data) == JSONpretty(data)

createTableText(a) ==
    "Table '" \o Interp(a, "tableName") \o "' created successfully with "
    \o ToString(Len(a.columns)) \o " columns."

queryTableText(data) == JSONpretty(data)

insertRecordText(data) == "Record inserted successfully: " \o JSONpretty(data)

updateRecordText(data) == "Record updated successfully: " \o JSONpretty(data)

deleteRecordText == "Record deleted successfully."

\* response.data.list ? response.data.list.length : 0
recordCount(data) == IF Has(data, "list") THEN Len(data.list) ELSE 0

\* response.data.pageInfo ? response.data.pageInfo.totalRows : recordCount
\* The value is a number ({n}) or undefined ({}).
totalCount(data) ==
    IF Has(data, "pageInfo")
    THEN (IF Has(data.pageInfo, "totalRows") THEN {data.pageInfo.totalRows} ELSE {})
    ELSE {recordCount(data)}

queryTableByNameText(a, data) ==
    "Table " \o Interp(a, "tableName") \o " contains "
    \o InterpNum(totalCount(data)) \o " total records. Retrieved "
    \o ToString(recordCount(data)) \o " records."

\* combinedMessage reporting the alternative error alone.
combinedMessageLast(error, alternativeError) ==
    "Failed to query table by name: " \o alternativeError

\* The message of the error thrown when both endpoints failed.
combinedMessage(error, alternativeError) ==
    "Failed to query table by name: " \o error
    \o ". Alternative approach also failed: " \o alternativeError

\* The TypeError of `for (const column of undefined)`.
NotIterable == "columns is not iterable"

---------------------------------------------------------------------------
(* The state machine. *)

\* One request is delivered; the other slots stay unused.
Init ==
    /\ pc = [r \in Reqs |-> IF r = 1 THEN "Idle" ELSE "Off"]
    /\ entry = [r \in Reqs |-> "none"]
    /\ toolName = [r \in Reqs |-> "none"]
    /\ args = [r \in Reqs |-> <<>>]
    /\ handler = [r \in Reqs |-> "none"]
    /\ calls = [r \in Reqs |-> <<>>]
    /\ responses = [r \in Reqs |-> <<>>]
    /\ frame = [r \in Reqs |-> <<>>]
    /\ outcome = [r \in Reqs |-> NoResult]
    /\ result = [r \in Reqs |-> NoResult]

\* The awaited call of request r completes with o.
Receive(r, o) == responses' = [responses EXCEPT ![r] = Append(@, o)]

\* Finish keeping the result in one field of the server object, which every
\* finished request then shows.
FinishShared(r, ho) ==
    /\ pc' = [pc EXCEPT ![r] = "Done"]
    /\ outcome' = [outcome EXCEPT ![r] = ho]
    /\ result' = [q \in Reqs |-> IF q = r \/ pc[q] = "Done"
                                 THEN Deliver(entry[r], ho)
                                 ELSE result[q]]

\* The handler ends with ho, and the entry point gives its caller what its
\* catch block makes of that.
Finish(r, ho) ==
    /\ pc' = [pc EXCEPT ![r] = "Done"]
    /\ outcome' = [outcome EXCEPT ![r] = ho]
    /\ result' = [result EXCEPT ![r] = Deliver(entry[r], ho)]

\* Issue with a request cache: a call another request already issued is
\* not issued again.
IssueOnce(r, call, at) ==
    /\ pc' = [pc EXCEPT ![r] = at]
    /\ calls' = [calls EXCEPT ![r] =
                    IF \E q \in Reqs \ {r} : \E k \in 1..Len(calls[q]) : calls[q][k] = call
                    THEN @
                    ELSE Append(@, call)]

\* The handler issues one more HTTP call and awaits it.
Issue(r, call, at) ==
    /\ pc' = [pc EXCEPT ![r] = at]
    /\ calls' = [calls EXCEPT ![r] = Append(@, call)]

\* An entry point e takes name n with arguments a; its switch selects h, or
\* its default branch throws.
Dispatch(r, e, n, a, h, unknown) ==
    /\ entry' = [entry EXCEPT ![r] = e]
    /\ toolName' = [toolName EXCEPT ![r] = n]
    /\ args' = [args EXCEPT ![r] = a]
    /\ IF h = "default"
       THEN /\ pc' = [pc EXCEPT ![r] = "Done"]
            /\ result' = [result EXCEPT ![r] = Deliver(e, unknown)]
            /\ UNCHANGED <<handler, calls, outcome>>
       ELSE /\ handler' = [handler EXCEPT ![r] = h]
            /\ Issue(r, FirstRequest(h, a), FirstPc(h))
            /\ UNCHANGED <<outcome, result>>
    /\ UNCHANGED <<responses, frame>>

\* server.setRequestHandler(CallToolRequestSchema, ...)
CallToolRequest(r) ==
    /\ pc[r] = "Idle"
    /\ \E n \in Names : \E a \in ArgsOf(n) :
          Dispatch(r, "tool", n, a, ToolSwitch(n), UnknownTool(n))

\* executeCommand(comando)
executeCommand(r) ==
    /\ pc[r] = "Idle"
    /\ \E n \in Names : \E a \in ArgsOf(n) :
          Dispatch(r, "command", n, a, CommandSwitch(n), UnknownCommand(n))

\* Request r is in handler h, awaiting its one HTTP call.
Awaiting(r, h) == pc[r] = "InFlight" /\ handler[r] = h

\* The handlers that await one call: the response shaped into the result
\* text, or the failure re-thrown under the handler's prefix.
listProjects(r) ==
    /\ Awaiting(r, "listProjects")
    /\ \E o \in Outcomes(Objects) :
          /\ Receive(r, o)
          /\ Finish(r, IF o.ok
                       THEN Return(listProjectsText(o.data))
                       ELSE Throw("Error", "Failed to list projects: " \o o.message))
    /\ UNCHANGED <<entry, toolName, args, handler, calls, frame>>

createProject(r) ==
    /\ Awaiting(r, "createProject")
    /\ \E o \in Outcomes(Objects) :
          /\ Receive(r, o)
          /\ Finish(r, IF o.ok
                       THEN Return(createProjectText(o.data))
                       ELSE Throw("Error", "Failed to create project: " \o o.message))
    /\ UNCHANGED <<entry, toolName, args, handler, calls, frame>>

listTables(r) ==
    /\ Awaiting(r, "listTables")
    /\ \E o \in Outcomes(Objects) :
          /\ Receive(r, o)
          /\ Finish(r, IF o.ok
                       THEN Return(listTablesText(o.data))
                       ELSE Throw("Error", "Failed to list tables: " \o o.message))
    /\ UNCHANGED <<entry, toolName, args, handler, calls, frame>>

queryTable(r) ==
    /\ Awaiting(r, "queryTable")
    /\ \E o \in Outcomes(Objects) :
          /\ Receive(r, o)
          /\ Finish(r, IF o.ok
                       THEN Return(queryTableText(o.data))
                       ELSE Throw("Error", "Failed to query table: " \o o.message))
    /\ UNCHANGED <<entry, toolName, args, handler, calls, frame>>

insertRecord(r) ==
    /\ Awaiting(r, "insertRecord")
    /\ \E o \in Outcomes(Objects) :
          /\ Receive(r, o)
          /\ Finish(r, IF o.ok
                       THEN Return(insertRecordText(o.data))
                       ELSE Throw("Error", "Failed to insert record: " \o o.message))
    /\ UNCHANGED <<entry, toolName, args, handler, calls, frame>>

updateRecord(r) ==
    /\ Awaiting(r, "updateRecord")
    /\ \E o \in Outcomes(Objects) :
          /\ Receive(r, o)
          /\ Finish(r, IF o.ok
                       THEN Return(updateRecordText(o.data))
                       ELSE Throw("Error", "Failed to update record: " \o o.message))
    /\ UNCHANGED <<entry, toolName, args, handler, calls, frame>>

\* deleteRecord echoing the response as the other handlers do.
deleteRecordEchoes(r) ==
    /\ Awaiting(r, "deleteRecord")
    /\ \E o \in Outcomes(Objects) :
          /\ Receive(r, o)
          /\ Finish(r, IF o.ok
                       THEN Return("Record deleted successfully: "
                                   \o JSONpretty(o.data))
                       ELSE Throw("Error", "Failed to delete record: " \o o.message))
    /\ UNCHANGED <<entry, toolName, args, handler, calls, frame>>

deleteRecord(r) ==
    /\ Awaiting(r, "deleteRecord")
    /\ \E o \in Outcomes(Objects) :
          /\ Receive(r, o)
          /\ Finish(r, IF o.ok
                       THEN Return(deleteRecordText)
                       ELSE Throw("Error", "Failed to delete record: " \o o.message))
    /\ UNCHANGED <<entry, toolName, args, handler, calls, frame>>

\* createTableLoop without the await in the loop body: the column-add is
\* issued and the handler returns at once.
createTableLoopUnawaited(r, tableId, i) ==
    LET a == args[r]
    IN  IF ~Has(a, "columns")
        THEN /\ Finish(r, Throw("Error", "Failed to create table: " \o NotIterable))
             /\ UNCHANGED <<calls, frame>>
        ELSE IF i <= Len(a.columns)
        THEN /\ Finish(r, Return(createTableText(a)))
             /\ calls' = [calls EXCEPT ![r] =
                             Append(@, addColumnRequest(tableId, a.columns[i]))]
             /\ UNCHANGED frame
        ELSE /\ Finish(r, Return(createTableText(a)))
             /\ UNCHANGED <<calls, frame>>

\* createTable from column i on: the loop issues the column-add of column i
\* and awaits it, or, past the last column, the handler returns.  Without
\* columns the for-of throws, and the catch block re-throws.
createTableLoop(r, tableId, i) ==
    LET a == args[r]
    IN  IF ~Has(a, "columns")
        THEN /\ Finish(r, Throw("Error", "Failed to create table: " \o NotIterable))
             /\ UNCHANGED <<calls, frame>>
        ELSE IF i <= Len(a.columns)
        THEN /\ Issue(r, addColumnRequest(tableId, a.columns[i]), "ColumnInFlight")
             /\ frame' = [frame EXCEPT ![r] = [tableId |-> tableId, i |-> i]]
             /\ UNCHANGED <<outcome, result>>
        ELSE /\ Finish(r, Return(createTableText(a)))
             /\ UNCHANGED <<calls, frame>>

\* createTableCatch deleting the created table before it re-throws.
createTableCatchRollback(r, o) ==
    /\ Finish(r, Throw("Error", "Failed to create table: " \o o.message))
    /\ calls' = [calls EXCEPT ![r] =
                    Append(@, [method |-> "DELETE", path |-> "/api/v1/db/meta/tables"])]
    /\ UNCHANGED frame

\* The catch block of createTable.
createTableCatch(r, o) ==
    /\ Finish(r, Throw("Error", "Failed to create table: " \o o.message))
    /\ UNCHANGED <<calls, frame>>

\* createTable after the table-create POST.
createTable(r) ==
    /\ pc[r] = "CreateInFlight"
    /\ \E o \in Outcomes({ [id |-> t] : t \in TableIds }) :
          /\ Receive(r, o)
          /\ IF o.ok
             THEN createTableLoop(r, o.data.id, 1)
             ELSE createTableCatch(r, o)
    /\ UNCHANGED <<entry, toolName, args, handler>>

\* createTable after the column-add POST of column frame[r].i.
createTableColumn(r) ==
    /\ pc[r] = "ColumnInFlight"
    /\ \E o \in Outcomes(Objects) :
          /\ Receive(r, o)
          /\ IF o.ok
             THEN createTableLoop(r, frame[r].tableId, frame[r].i + 1)
             ELSE createTableCatch(r, o)
    /\ UNCHANGED <<entry, toolName, args, handler>>

\* queryTableByName after the primary GET: the summary, or the alternative
\* GET with the primary error kept.
queryTableByName(r) ==
    /\ pc[r] = "PrimaryInFlight"
    /\ \E o \in Outcomes(RecordsBodies) :
          /\ Receive(r, o)
          /\ IF o.ok
             THEN /\ Finish(r, Return(queryTableByNameText(args[r], o.data)))
                  /\ UNCHANGED <<calls, frame>>
             ELSE /\ Issue(r, alternativeRequest(args[r]), "SecondaryInFlight")
                  /\ frame' = [frame EXCEPT ![r] = [error |-> o.message]]
                  /\ UNCHANGED <<outcome, result>>
    /\ UNCHANGED <<entry, toolName, args, handler>>

\* queryTableByNameAlternative throwing the kept primary error although the
\* alternative GET succeeded.
queryTableByNameAlternativeThrows(r) ==
    /\ pc[r] = "SecondaryInFlight"
    /\ \E o \in Outcomes(RecordsBodies) :
          /\ Receive(r, o)
          /\ Finish(r, Throw("Error",
                       "Failed to query table by name: " \o frame[r].error))
    /\ UNCHANGED <<entry, toolName, args, handler, calls, frame>>

\* queryTableByName after the alternative GET: the summary, or one error
\* with both messages.
queryTableByNameAlternative(r) ==
    /\ pc[r] = "SecondaryInFlight"
    /\ \E o \in Outcomes(RecordsBodies) :
          /\ Receive(r, o)
          /\ Finish(r, IF o.ok
                       THEN Return(queryTableByNameText(args[r], o.data))
                       ELSE Throw("Error", combinedMessage(frame[r].error, o.message)))
    /\ UNCHANGED <<entry, toolName, args, handler, calls, frame>>

---------------------------------------------------------------------------
(* The list-resources handler. *)

projectsRequest == [method |-> "GET", path |-> "/api/v1/db/meta/projects"]

tablesRequest(project) ==
    [method |-> "GET",
     path |-> "/api/v1/db/meta/projects/" \o project.id \o "/tables"]

projectResource(project) ==
    [uri |-> "nocodb://project/" \o project.id,
     mimeType |-> "application/json",
     name |-> project.title,
     description |-> "NocoDB project: " \o project.title]

tableResource(project, table) ==
    [uri |-> "nocodb://table/" \o project.id \o "/" \o table.id,
     mimeType |-> "application/json",
     name |-> table.title,
     description |-> "Table " \o table.title \o " in project " \o project.title]

\* The resources of the tables of a table-list body (list || []).
tableResources(project, data) ==
    LET tables == Default(data, "list", <<>>)
    IN  [k \in 1..Len(tables) |-> tableResource(project, tables[k])]

\* return { resources }
FinishResources(r, resources) ==
    /\ pc' = [pc EXCEPT ![r] = "Done"]
    /\ result' = [result EXCEPT ![r] = [kind |-> "resources", resources |-> resources]]
    /\ UNCHANGED <<calls, frame>>

\* server.setRequestHandler(ListResourcesRequestSchema, ...) up to the
\* project-list GET.
ListResourcesRequest(r) ==
    /\ pc[r] = "Idle"
    /\ entry' = [entry EXCEPT ![r] = "resources"]
    /\ handler' = [handler EXCEPT ![r] = "listResources"]
    /\ Issue(r, projectsRequest, "ProjectsInFlight")
    /\ UNCHANGED <<toolName, args, responses, frame, outcome, result>>

\* The loop over the projects from project i on: the project's resource is
\* pushed and the table-list GET of the project awaited, or, past the last
\* project, the resources are returned.
listResourcesLoop(r, projects, i, resources) ==
    IF i <= Len(projects)
    THEN /\ Issue(r, tablesRequest(projects[i]), "TablesInFlight")
         /\ frame' = [frame EXCEPT ![r] =
                         [projects |-> projects, i |-> i,
                          resources |-> Append(resources, projectResource(projects[i]))]]
         /\ UNCHANGED result
    ELSE FinishResources(r, resources)

\* After the project-list GET: the outer catch returns no resources.
listResources(r) ==
    /\ pc[r] = "ProjectsInFlight"
    /\ \E o \in Outcomes(ProjectsBodies) :
          /\ Receive(r, o)
          /\ IF o.ok
             THEN listResourcesLoop(r, Default(o.data, "list", <<>>), 1, <<>>)
             ELSE FinishResources(r, <<>>)
    /\ UNCHANGED <<entry, toolName, args, handler, outcome>>

\* listResourcesTables without the inner try: a failed table-list GET ends
\* in the outer catch.
listResourcesTablesAbort(r) ==
    /\ pc[r] = "TablesInFlight"
    /\ \E o \in Outcomes(TablesBodies) :
          /\ Receive(r, o)
          /\ LET f == frame[r]
                 project == f.projects[f.i]
             IN  IF o.ok
                 THEN listResourcesLoop(r, f.projects, f.i + 1,
                         f.resources \o tableResources(project, o.data))
                 ELSE FinishResources(r, <<>>)
    /\ UNCHANGED <<entry, toolName, args, handler, outcome>>

\* After the table-list GET of project frame[r].i: the inner catch logs the
\* failure and the loop goes on.
listResourcesTables(r) ==
    /\ pc[r] = "TablesInFlight"
    /\ \E o \in Outcomes(TablesBodies) :
          /\ Receive(r, o)
          /\ LET f == frame[r]
                 project == f.projects[f.i]
             IN  listResourcesLoop(r, f.projects, f.i + 1,
                    IF o.ok THEN f.resources \o tableResources(project, o.data)
                    ELSE f.resources)
    /\ UNCHANGED <<entry, toolName, args, handler, outcome>>

Next ==
    \E r \in Reqs :
        \/ CallToolRequest(r)
        \/ executeCommand(r)
        \/ listProjects(r)
        \/ createProject(r)
        \/ listTables(r)
        \/ createTable(r)
        \/ createTableColumn(r)
        \/ queryTable(r)
        \/ insertRecord(r)
        \/ updateRecord(r)
        \/ deleteRecord(r)
        \/ queryTableByName(r)
        \/ queryTableByNameAlternative(r)
        \/ ListResourcesRequest(r)
        \/ listResources(r)
        \/ listResourcesTables(r)

Spec == Init /\ [][Next]_vars

\* Every slot takes a request: the transport delivers the requests
\* concurrently, and the steps of their handlers interleave at the awaits.
InitConc ==
    /\ pc = [r \in Reqs |-> "Idle"]
    /\ entry = [r \in Reqs |-> "none"]
    /\ toolName = [r \in Reqs |-> "none"]
    /\ args = [r \in Reqs |-> <<>>]
    /\ handler = [r \in Reqs |-> "none"]
    /\ calls = [r \in Reqs |-> <<>>]
    /\ responses = [r \in Reqs |-> <<>>]
    /\ frame = [r \in Reqs |-> <<>>]
    /\ outcome = [r \in Reqs |-> NoResult]
    /\ result = [r \in Reqs |-> NoResult]

SpecConc == InitConc /\ [][Next]_vars

\* The awaited HTTP call of request r completes.
Complete(r) ==
    \/ listProjects(r)
    \/ createProject(r)
    \/ listTables(r)
    \/ createTable(r)
    \/ createTableColumn(r)
    \/ queryTable(r)
    \/ insertRecord(r)
    \/ updateRecord(r)
    \/ deleteRecord(r)
    \/ queryTableByName(r)
    \/ queryTableByNameAlternative(r)
    \/ listResources(r)
    \/ listResourcesTables(r)

\* Every HTTP call that was issued completes, with a response or a failure.
SpecLive == SpecConc /\ \A r \in Reqs : WF_vars(Complete(r))

---------------------------------------------------------------------------
(* Notions the claims use. *)

\* Request r has been dispatched.
Started(r) == pc[r] \notin {"Off", "Idle"}

\* Request r came in through one of the two dispatch entry points.
Dispatched(r) == entry[r] \in {"tool", "command"}

\* The handler the operation table gives each operation name.
OwnHandler ==
    [n \in ToolNames |->
        CASE n = "list_projects"       -> "listProjects"
          [] n = "create_project"      -> "createProject"
          [] n = "list_tables"         -> "listTables"
          [] n = "create_table"        -> "createTable"
          [] n = "query_table"         -> "queryTable"
          [] n = "insert_record"       -> "insertRecord"
          [] n = "update_record"       -> "updateRecord"
          [] n = "delete_record"       -> "deleteRecord"
          [] n = "query_table_by_name" -> "queryTableByName"]

\* The operations executeCommand does not know.
ToolOnly == { "create_project", "create_table" }

\* A result is a well-formed envelope: content returned, not an exception.
Envelope(x) == x.kind = "return"

\* The last completed call of request r failed.
LastFailed(r) ==
    /\ Len(responses[r]) > 0
    /\ ~responses[r][Len(responses[r])].ok

---------------------------------------------------------------------------
(* C1 *)

\* C1: a request whose name is not one of the nine operation names ends at
\* once with a raised error that carries the name; no handler is entered and
\* no HTTP call is issued, through either entry point.
C1_UnknownOperationFails ==
    \A r \in Reqs :
        (Started(r) /\ Dispatched(r) /\ toolName[r] \notin ToolNames) =>
            /\ pc[r] = "Done"
            /\ handler[r] = "none"
            /\ outcome[r] = NoResult
            /\ calls[r] = <<>>
            /\ result[r].kind = "throw"
            /\ Contains(result[r].message, toolName[r])

C1_Witness ==
    \E r \in Reqs :
        /\ pc[r] = "Done"
        /\ entry[r] = "tool"
        /\ toolName[r] = "drop_table"
        /\ result[r].kind = "throw"

---------------------------------------------------------------------------
(* C2 *)

\* C2 as stated: each of the nine names is routed to its own handler and
\* the handler's result is returned unchanged, through either entry point.
C2_KnownNameRouted ==
    \A r \in Reqs :
        (Started(r) /\ toolName[r] \in ToolNames) =>
            /\ handler[r] = OwnHandler[toolName[r]]
            /\ (outcome[r].kind = "return" => result[r] = outcome[r])

\* C2 amended: the tool-call handler routes each of the nine names to its
\* own handler, executeCommand routes the seven names it knows, and both
\* return what the handler returned unchanged; executeCommand rejects
\* create_project and create_table as unknown commands, entering no handler
\* and issuing no call.
C2_KnownNameRoutedPerEntry ==
    \A r \in Reqs :
        (Started(r) /\ toolName[r] \in ToolNames) =>
            IF entry[r] = "command" /\ toolName[r] \in ToolOnly
            THEN /\ pc[r] = "Done"
                 /\ handler[r] = "none"
                 /\ calls[r] = <<>>
                 /\ result[r].kind = "throw"
                 /\ Contains(result[r].message, toolName[r])
            ELSE /\ handler[r] = OwnHandler[toolName[r]]
                 /\ (outcome[r].kind = "return" => result[r] = outcome[r])

C2_Witness ==
    \E r \in Reqs :
        /\ pc[r] = "Done"
        /\ entry[r] = "command"
        /\ toolName[r] = "update_record"
        /\ handler[r] = "updateRecord"
        /\ outcome[r].kind = "return"

---------------------------------------------------------------------------
(* C3 *)

\* C3: a request that omits a required argument of its operation fails with
\* MissingArgument naming that argument, and issues no HTTP call.
C3_MissingArgumentRejected ==
    \A r \in Reqs :
        (Started(r) /\ toolName[r] \in ToolNames) =>
            \A f \in Required(toolName[r]) \ DOMAIN args[r] :
                /\ calls[r] = <<>>
                /\ pc[r] = "Done"
                /\ result[r].kind = "throw"
                /\ result[r].cls = "MissingArgument"
                /\ Contains(result[r].message, f)

---------------------------------------------------------------------------
(* C4 *)

\* C4 as stated: a handler turns a failed remote call into an error-flagged
\* result itself and never throws, so every finished request of a known
\* operation carries an envelope.
C4_HandlerConvertsFailure ==
    \A r \in Reqs :
        (pc[r] = "Done" /\ Dispatched(r) /\ handler[r] # "none") =>
            /\ Envelope(outcome[r])
            /\ Envelope(result[r])
            /\ LastFailed(r) =>
                  /\ outcome[r].isError
                  /\ Contains(outcome[r].text,
                              responses[r][Len(responses[r])].message)

\* C4 amended: a handler re-throws a failed remote call as an Error whose
\* message carries the remote error's message; the tool-call handler turns
\* every error thrown by a handler into an error-flagged envelope with the
\* text "Error: " and that message, so through it every known operation ends
\* with an envelope and only an unknown tool is raised; executeCommand
\* re-throws the handler's error to its caller.
C4_FailureConvertedByToolEntry ==
    \A r \in Reqs :
        /\ (pc[r] = "Done" /\ Dispatched(r) /\ handler[r] # "none") =>
              /\ LastFailed(r) =>
                    /\ outcome[r].kind = "throw"
                    /\ outcome[r].cls = "Error"
                    /\ Contains(outcome[r].message,
                                responses[r][Len(responses[r])].message)
              /\ (entry[r] = "tool" /\ outcome[r].kind = "throw") =>
                    /\ Envelope(result[r])
                    /\ result[r].isError
                    /\ result[r].text = "Error: " \o outcome[r].message
              /\ (entry[r] = "tool" /\ outcome[r].kind = "return") =>
                    /\ Envelope(result[r])
                    /\ ~result[r].isError
              /\ (entry[r] = "command" /\ outcome[r].kind = "throw") =>
                    result[r] = outcome[r]
        /\ (pc[r] = "Done" /\ entry[r] = "tool" /\ ~Envelope(result[r])) =>
              toolName[r] \notin ToolNames

C4_Witness ==
    \E r \in Reqs :
        /\ pc[r] = "Done"
        /\ entry[r] = "tool"
        /\ handler[r] = "listProjects"
        /\ LastFailed(r)
        /\ result[r].isError

---------------------------------------------------------------------------
(* C5 *)

\* The two records endpoints of query_table_by_name for request r.
PrimaryPath(r) ==
    "/api/" \o API_VERSION \o "/tables/" \o Interp(args[r], "tableName")
    \o "/records"

SecondaryPath(r) ==
    "/api/" \o API_VERSION \o "/bases/" \o NOCODB_BASE_ID \o "/tables/"
    \o Interp(args[r], "tableName") \o "/records"

\* The caller of request r got a success result.
Succeeded(r) == pc[r] = "Done" /\ Envelope(result[r]) /\ ~result[r].isError

\* The state of the fallback state machine request r is in.
Phase(r) ==
    IF pc[r] = "Done"
    THEN (IF Succeeded(r) THEN "DoneSuccess" ELSE "DoneError")
    ELSE pc[r]

FallbackTransitions ==
    { <<"Idle", "PrimaryInFlight">>,
      <<"PrimaryInFlight", "DoneSuccess">>,
      <<"PrimaryInFlight", "SecondaryInFlight">>,
      <<"SecondaryInFlight", "DoneSuccess">>,
      <<"SecondaryInFlight", "DoneError">> }

\* The calls of a query_table_by_name request so far: the primary GET
\* first, the secondary GET exactly when the primary GET failed, each
\* endpoint once, two calls at most.
FallbackCalls(r) ==
    LET n == Len(calls[r])
        m == Len(responses[r])
    IN  /\ n \in 1..2
        /\ m <= n
        /\ calls[r][1].method = "GET"
        /\ calls[r][1].path = PrimaryPath(r)
        /\ (n = 2) <=> (m >= 1 /\ ~responses[r][1].ok)
        /\ n = 2 => /\ calls[r][2].method = "GET"
                    /\ calls[r][2].path = SecondaryPath(r)
                    /\ calls[r][2].path # calls[r][1].path
        /\ (Phase(r) = "PrimaryInFlight") <=> (n = 1 /\ m = 0)
        /\ (Phase(r) = "SecondaryInFlight") <=> (n = 2 /\ m = 1)
        /\ (Phase(r) = "DoneSuccess") <=> (m = n /\ responses[r][m].ok)
        /\ (Phase(r) = "DoneError") <=> (m = 2 /\ ~responses[r][2].ok)

\* C5: a query_table_by_name request moves only along Idle ->
\* PrimaryInFlight -> Done(Success), or Idle -> PrimaryInFlight ->
\* SecondaryInFlight -> Done(Success) or Done(Error); it issues the primary
\* GET first, the secondary GET if and only if the primary GET failed, each
\* endpoint at most once and at most two calls.
C5_FallbackStateMachine ==
    /\ [](\A r \in Reqs : handler[r] = "queryTableByName" => FallbackCalls(r))
    /\ [][\A r \in Reqs :
            handler'[r] = "queryTableByName" =>
                \/ Phase(r)' = Phase(r)
                \/ <<Phase(r), Phase(r)'>> \in FallbackTransitions]_vars

C5_Witness ==
    \E r \in Reqs :
        /\ handler[r] = "queryTableByName"
        /\ Phase(r) = "DoneError"
        /\ Len(calls[r]) = 2

---------------------------------------------------------------------------
(* C6 *)

\* s contains t1 and, after it, t2.
ContainsInOrder(s, t1, t2) ==
    \E i \in 1..Len(s) : \E j \in (i + Len(t1))..Len(s) :
        /\ SubSeq(s, i, i + Len(t1) - 1) = t1
        /\ SubSeq(s, j, j + Len(t2) - 1) = t2

\* C6: when both GETs of query_table_by_name fail, the handler ends with one
\* error whose message holds the primary message and, after it, the
\* secondary message, and the caller gets no success result.
C6_CombinedError ==
    \A r \in Reqs :
        ( /\ handler[r] = "queryTableByName"
          /\ pc[r] = "Done"
          /\ Len(responses[r]) = 2
          /\ ~responses[r][2].ok ) =>
            /\ outcome[r].kind = "throw"
            /\ ContainsInOrder(outcome[r].message,
                               responses[r][1].message, responses[r][2].message)
            /\ ~Succeeded(r)
            /\ ContainsInOrder(IF Envelope(result[r]) THEN result[r].text
                               ELSE result[r].message,
                               responses[r][1].message, responses[r][2].message)

C6_Witness ==
    \E r \in Reqs :
        /\ handler[r] = "queryTableByName"
        /\ pc[r] = "Done"
        /\ Len(responses[r]) = 2
        /\ ~responses[r][1].ok
        /\ ~responses[r][2].ok
        /\ responses[r][1].message # responses[r][2].message

---------------------------------------------------------------------------
(* C7 *)

\* C7: when the primary GET fails and the secondary GET succeeds, the caller
\* gets a success result whose text is the summary of the secondary
\* response; no error is produced and the primary error's message is not in
\* the text.
C7_FallbackSuccess ==
    \A r \in Reqs :
        ( /\ handler[r] = "queryTableByName"
          /\ pc[r] = "Done"
          /\ Len(responses[r]) = 2
          /\ responses[r][2].ok ) =>
            /\ ~responses[r][1].ok
            /\ Succeeded(r)
            /\ outcome[r].kind = "return"
            /\ result[r].text = queryTableByNameText(args[r], responses[r][2].data)
            /\ ~Contains(result[r].text, responses[r][1].message)

C7_Witness ==
    \E r \in Reqs :
        /\ handler[r] = "queryTableByName"
        /\ pc[r] = "Done"
        /\ Len(responses[r]) = 2
        /\ responses[r][2].ok
        /\ Has(responses[r][2].data, "list")
        /\ Len(responses[r][2].data.list) = 2

---------------------------------------------------------------------------
(* C8 *)

\* The length of the record list of a response body, 0 without a list.
ListLength(data) == IF Has(data, "list") THEN Len(data.list) ELSE 0

\* The body reports a total-row count.
HasTotalRows(data) == Has(data, "pageInfo") /\ Has(data.pageInfo, "totalRows")

\* C8: after a successful response of query_table_by_name the text reports
\* as total the response's total-row count when it has one and the length of
\* the record list otherwise, and as retrieved the length of the record
\* list, for every response shape.
C8_CountsReported ==
    \A r \in Reqs :
        ( /\ handler[r] = "queryTableByName"
          /\ pc[r] = "Done"
          /\ responses[r][Len(responses[r])].ok ) =>
            LET data == responses[r][Len(responses[r])].data
                n == ListLength(data)
                t == IF HasTotalRows(data) THEN data.pageInfo.totalRows ELSE n
            IN  result[r].text =
                    "Table " \o Interp(args[r], "tableName") \o " contains "
                    \o ToString(t) \o " total records. Retrieved "
                    \o ToString(n) \o " records."

---------------------------------------------------------------------------
(* C9 *)

\* Every call of request r that completed succeeded.
AllSucceeded(r) == \A k \in 1..Len(responses[r]) : responses[r][k].ok

\* C9: a create_table request with N columns whose calls all succeed issues
\* 1 + N calls: the table-create POST, then for k = 1..N the column-add POST
\* of column k on the table id the create returned, with a pk flag in the
\* body exactly when column k has is_primary true.
C9_CreateTableCalls ==
    \A r \in Reqs :
        ( /\ handler[r] = "createTable"
          /\ pc[r] = "Done"
          /\ Has(args[r], "columns")
          /\ AllSucceeded(r) ) =>
            LET columns == args[r].columns
                N == Len(columns)
            IN  /\ Len(calls[r]) = 1 + N
                /\ Len(responses[r]) = 1 + N
                /\ calls[r][1].method = "POST"
                /\ calls[r][1].path =
                      "/api/v1/db/meta/projects/"
                      \o Interp(args[r], "projectId") \o "/tables"
                /\ \A k \in 1..N :
                      LET call == calls[r][1 + k]
                      IN  /\ call.method = "POST"
                          /\ call.path =
                                "/api/v1/db/meta/tables/"
                                \o responses[r][1].data.id \o "/columns"
                          /\ call.body.column_name = columns[k].column_name
                          /\ call.body.title = columns[k].column_name
                          /\ call.body.uidt = columns[k].column_type
                          /\ Has(call.body, "pk") <=>
                                (Has(columns[k], "is_primary")
                                 /\ columns[k].is_primary = TRUE)
                          /\ Has(call.body, "pk") => call.body.pk = TRUE

C9_Witness ==
    \E r \in Reqs :
        /\ handler[r] = "createTable"
        /\ pc[r] = "Done"
        /\ Has(args[r], "columns")
        /\ Len(args[r].columns) = MaxCols
        /\ AllSucceeded(r)
        /\ args[r].columns[1].column_name # args[r].columns[MaxCols].column_name
        /\ Has(args[r].columns[1], "is_primary")
        /\ args[r].columns[1].is_primary = FALSE
        /\ Has(args[r].columns[MaxCols], "is_primary")
        /\ args[r].columns[MaxCols].is_primary = TRUE

---------------------------------------------------------------------------
(* C10 *)

\* JSON.parse of the text of an object with string members: the members
\* between the braces, read left to right.
RECURSIVE JSONparseMembers(_)
JSONparseMembers(s) ==
    IF Len(s) = 0 THEN <<>>
    ELSE LET afterQuote == SubSeq(s, 2, Len(s))
             keyEnd == IndexOf(afterQuote, "\"")
             key == SubSeq(afterQuote, 1, keyEnd - 1)
             afterColon == SubSeq(afterQuote, keyEnd + 3, Len(afterQuote))
             valueEnd == IndexOf(afterColon, "\"")
             value == SubSeq(afterColon, 1, valueEnd - 1)
             rest == SubSeq(afterColon, valueEnd + 1, Len(afterColon))
         IN  << <<key, value>> >>
             \o JSONparseMembers(IF Len(rest) > 0 THEN SubSeq(rest, 2, Len(rest))
                                 ELSE rest)

JSONparse(s) == JSONparseMembers(SubSeq(s, 2, Len(s) - 1))

\* C10: a query_table request issues exactly one GET; its params are limit
\* (100 when not given), offset (0 when not given) and, only when filters
\* has at least one member, where, whose value is the JSON text of filters.
C10_QueryParams ==
    \A r \in Reqs :
        handler[r] = "queryTable" =>
            LET a == args[r]
                call == calls[r][1]
                given == Has(a, "filters") /\ Len(a.filters) > 0
            IN  /\ Len(calls[r]) = 1
                /\ call.method = "GET"
                /\ call.params.limit = (IF Has(a, "limit") THEN a.limit ELSE 100)
                /\ call.params.offset = (IF Has(a, "offset") THEN a.offset ELSE 0)
                /\ DOMAIN call.params =
                      {"limit", "offset"} \cup (IF given THEN {"where"} ELSE {})
                /\ given =>
                      /\ JSONparse(call.params.where) = a.filters
                      /\ SubSeq(call.params.where, 1, 1) = "{"
                      /\ ~Contains(call.params.where, " ")

C10_Witness ==
    \E r \in Reqs :
        /\ handler[r] = "queryTable"
        /\ pc[r] = "Done"
        /\ Has(args[r], "filters")
        /\ Len(args[r].filters) = 2
        /\ calls[r][1].params.where = "{\"a\":\"x\",\"b\":\"y\"}"

---------------------------------------------------------------------------
(* C11 *)

\* C11: a delete_record request issues exactly one call, a DELETE without
\* body on the record path built from projectId, tableName and recordId;
\* when it succeeds the caller gets a success result whose text is the
\* confirmation alone, with nothing of the response body in it.
C11_DeleteRecord ==
    \A r \in Reqs :
        handler[r] = "deleteRecord" =>
            /\ Len(calls[r]) = 1
            /\ calls[r][1] =
                  [method |-> "DELETE",
                   path |-> "/api/v1/db/data/noco/" \o Interp(args[r], "projectId")
                            \o "/" \o Interp(args[r], "tableName")
                            \o "/" \o Interp(args[r], "recordId")]
            /\ (pc[r] = "Done" /\ responses[r][1].ok) =>
                  /\ Succeeded(r)
                  /\ result[r].text = "Record deleted successfully."
                  /\ ~Contains(result[r].text, JSONpretty(responses[r][1].data))
                  /\ ~Contains(result[r].text, JSONstringify(responses[r][1].data))

C11_Witness ==
    \E r \in Reqs :
        /\ handler[r] = "deleteRecord"
        /\ pc[r] = "Done"
        /\ Has(args[r], "recordId")
        /\ responses[r][1].ok
        /\ Len(responses[r][1].data) = 2

---------------------------------------------------------------------------
(* C15 *)

\* C15: when a call of a create_table request fails, nothing follows it.
\* After a failed table-create POST no column-add is issued; after a failed
\* column-add of column k the columns 1..k-1 have been added, no column-add
\* for a later column and no compensating call is issued, and the error the
\* handler throws is the create-table prefix with the remote message, the
\* same whichever step failed.
C15_CreateTablePartialFailure ==
    \A r \in Reqs :
        ( /\ handler[r] = "createTable"
          /\ pc[r] = "Done"
          /\ Has(args[r], "columns")
          /\ LastFailed(r) ) =>
            LET m == Len(responses[r])
                k == m - 1
            IN  /\ Len(calls[r]) = m
                /\ k <= Len(args[r].columns)
                /\ \A j \in 1..k : responses[r][j].ok
                /\ \A j \in 1..m : calls[r][j].method = "POST"
                /\ Contains(calls[r][1].path, "/projects/")
                /\ \A j \in 2..m :
                      /\ Contains(calls[r][j].path, "/columns")
                      /\ calls[r][j].body.column_name =
                            args[r].columns[j - 1].column_name
                /\ outcome[r] =
                      [kind |-> "throw", cls |-> "Error",
                       message |-> "Failed to create table: "
                                   \o responses[r][m].message]
                /\ ~Succeeded(r)

C15_Witness ==
    \E r \in Reqs :
        /\ handler[r] = "createTable"
        /\ pc[r] = "Done"
        /\ Has(args[r], "columns")
        /\ Len(args[r].columns) = MaxCols
        /\ Len(responses[r]) = MaxCols
        /\ LastFailed(r)

---------------------------------------------------------------------------
(* C16 *)

\* The projects a project-list response lists.
Listed(o) == IF o.ok /\ Has(o.data, "list") THEN o.data.list ELSE <<>>

\* The uris asked of the handler for the projects from project i on, given
\* the outcomes of the calls: the project's own uri, then the uris of its
\* tables when its table-list GET succeeded.
RECURSIVE UrisFrom(_, _, _)
UrisFrom(projects, outcomes, i) ==
    IF i > Len(projects) THEN <<>>
    ELSE LET o == outcomes[1 + i]
             tables == Listed(o)
         IN  << "nocodb://project/" \o projects[i].id >>
             \o [k \in 1..Len(tables) |->
                    "nocodb://table/" \o projects[i].id \o "/" \o tables[k].id]
             \o UrisFrom(projects, outcomes, i + 1)

\* C16: the list-resources handler always returns a resource list: the empty
\* list when the project-list GET fails, and otherwise, for each listed
\* project in order, the project's resource followed by its tables'
\* resources when its table-list GET succeeded; it issues one project-list
\* GET and then one table-list GET per listed project.
C16_ListResources ==
    \A r \in Reqs :
        handler[r] = "listResources" =>
            /\ Len(calls[r]) >= 1
            /\ calls[r][1] = [method |-> "GET", path |-> "/api/v1/db/meta/projects"]
            /\ pc[r] = "Done" =>
                  LET projects == Listed(responses[r][1])
                      N == Len(projects)
                      resources == result[r].resources
                  IN  /\ result[r].kind = "resources"
                      /\ Len(calls[r]) = 1 + N
                      /\ Len(responses[r]) = 1 + N
                      /\ \A i \in 1..N :
                            calls[r][1 + i] =
                               [method |-> "GET",
                                path |-> "/api/v1/db/meta/projects/"
                                         \o projects[i].id \o "/tables"]
                      /\ ~responses[r][1].ok => resources = <<>>
                      /\ [k \in 1..Len(resources) |-> resources[k].uri]
                            = UrisFrom(projects, responses[r], 1)

C16_Witness ==
    \E r \in Reqs :
        /\ handler[r] = "listResources"
        /\ pc[r] = "Done"
        /\ Len(responses[r]) = 3
        /\ ~responses[r][2].ok
        /\ responses[r][3].ok
        /\ Len(result[r].resources) = 3

---------------------------------------------------------------------------
(* C12 *)

\* Requests r and q are two calls of update_record with the same arguments.
SameUpdate(r, q) ==
    /\ r # q
    /\ Dispatched(r) /\ Dispatched(q)
    /\ toolName[r] = "update_record" /\ toolName[q] = "update_record"
    /\ args[r] = args[q]

\* Request r has its answer from the outcome of its own call, and none
\* before that call completed.
OwnAnswer(r) ==
    IF responses[r] = <<>>
    THEN pc[r] # "Done" /\ result[r] = NoResult
    ELSE /\ pc[r] = "Done"
         /\ IF responses[r][1].ok
            THEN /\ Envelope(result[r])
                 /\ ~result[r].isError
                 /\ Contains(result[r].text, "Record updated successfully")
            ELSE Contains(IF Envelope(result[r]) THEN result[r].text
                                                 ELSE result[r].message,
                          "Failed to update record: " \o responses[r][1].message)

\* C12: two update_record calls with identical arguments, one after the
\* other or interleaved, make two PATCH calls, one each, to the same record
\* path with the same body, and each call is answered from its own response.
C12_UpdateTwice ==
    \A r, q \in Reqs :
        SameUpdate(r, q) =>
            /\ Len(calls[r]) = 1 /\ Len(calls[q]) = 1
            /\ calls[r][1] = calls[q][1]
            /\ calls[r][1].method = "PATCH"
            /\ calls[r][1].path = "/api/v1/db/data/noco/" \o args[r].projectId
                                   \o "/" \o args[r].tableName
                                   \o "/" \o args[r].recordId
            /\ calls[r][1].body = args[r].data
            /\ OwnAnswer(r) /\ OwnAnswer(q)

\* The first call was answered with success and the second, identical, with
\* its own failure.
C12_Witness ==
    \E r, q \in Reqs :
        /\ SameUpdate(r, q)
        /\ pc[r] = "Done" /\ pc[q] = "Done"
        /\ responses[r][1].ok
        /\ ~responses[q][1].ok

---------------------------------------------------------------------------
(* C13 *)

\* All there is of request r.
Local(r) ==
    << pc[r], entry[r], toolName[r], args[r], handler[r],
       calls[r], responses[r], frame[r], outcome[r], result[r] >>

\* Requests r and q came in through the same entry point with the same name
\* and arguments.
SameRequest(r, q) ==
    /\ entry[r] = entry[q]
    /\ toolName[r] = toolName[q]
    /\ args[r] = args[q]

IsPrefix(s, t) == Len(s) <= Len(t) /\ SubSeq(t, 1, Len(s)) = s

\* What request r has done follows from its name, its arguments and the
\* responses to its own calls: another request with the same ones that has
\* seen as much or more has issued the same calls first, and stands where r
\* stands when it has seen the same.
OwnInputsOnly ==
    \A r, q \in Reqs :
        SameRequest(r, q) /\ IsPrefix(responses[r], responses[q]) =>
            /\ IsPrefix(calls[r], calls[q])
            /\ responses[r] = responses[q] =>
                  /\ calls[r] = calls[q]
                  /\ pc[r] = pc[q]
                  /\ handler[r] = handler[q]
                  /\ frame[r] = frame[q]
                  /\ outcome[r] = outcome[q]
                  /\ result[r] = result[q]

\* A step is a step of one request: it leaves every other request as it was.
OwnStateOnly == \E r \in Reqs : \A q \in Reqs \ {r} : Local(q)' = Local(q)

\* C13: with several requests in flight and their calls interleaved in any
\* order, the calls and the result of each request follow from its own name,
\* arguments and responses, and no step of a request writes what belongs to
\* another.
C13_RequestsIndependent == []OwnInputsOnly /\ [][OwnStateOnly]_vars

\* Two identical query_table_by_name requests interleaved: one has its
\* combined failure while the other still awaits its alternative call.
C13_Witness ==
    \E r, q \in Reqs :
        /\ r # q
        /\ SameRequest(r, q)
        /\ handler[r] = "queryTableByName"
        /\ pc[r] = "SecondaryInFlight"
        /\ pc[q] = "Done"
        /\ Len(responses[q]) = 2
        /\ ~responses[q][2].ok

---------------------------------------------------------------------------
(* C14 *)

\* The calls of request r that were issued and have not completed.
Pending(r) == Len(calls[r]) - Len(responses[r])

\* Request r has its result.
Returned(r) == result[r] # NoResult

\* A request has at most one call in flight, and has its result exactly
\* when it is done, with none of its calls in flight.
OneCallAtATime ==
    \A r \in Reqs :
        /\ Pending(r) \in {0, 1}
        /\ Returned(r) <=> pc[r] = "Done"
        /\ Returned(r) => Pending(r) = 0

\* A result, once returned, is the request's result for good.
OneResult == \A r \in Reqs : Returned(r) => result[r]' = result[r]

\* C14: when every issued call completes, every request that was taken in
\* comes to return a result (it does not stay without one for ever: a
\* request stays taken in, and a result stays returned), one only, and only
\* after all its calls, the fallback call included, have completed; a
\* request has at most one call in flight at any time.
C14_RunsToCompletion ==
    /\ \A r \in Reqs : []<>(Started(r) => Returned(r))
    /\ []OneCallAtATime
    /\ [][OneResult]_vars

\* A query_table_by_name request returned after its primary and its
\* alternative call, while another request awaits a call.
C14_Witness ==
    \E r, q \in Reqs :
        /\ handler[r] = "queryTableByName"
        /\ Returned(r)
        /\ Len(calls[r]) = 2
        /\ Len(responses[r]) = 2
        /\ Pending(q) = 1

=============================================================================
